---- MODULE Spec2Model ----
(***************************************************************************)
(* UserService (app/services/user_service.py): the account lifecycle       *)
(* operations over the persistence gateway.  The state is the table of     *)
(* persisted accounts; every operation is one action, from its lookup to   *)
(* its commit.  A gateway round trip may fail (SQLAlchemyError): the       *)
(* parameter F of every action is the set of round trips of that call      *)
(* that fail.  Spec runs the service over a gateway that serves every      *)
(* round trip (F = {}); SpecFault lets any of them fail.  SpecSearch and   *)
(* SpecUpdate run calls one after the other with their arguments recorded; *)
(* SpecCreateRace and SpecLoginRace run requests at once, one round trip   *)
(* of one request at a time.                                               *)
(***************************************************************************)
EXTENDS Integers, FiniteSets, Sequences, TLC

\* ------------------------------------------------------------------ bounds
MaxUsers == 2
MaxSeeds == 1
MaxTime == 1
\* settings.max_login_attempts: a configured value, read at line 231
MaxLoginAttempts == 2
\* requests in flight at once
MaxProcs == 2
\* the largest limit (and skip) given to search_users
MaxLimit == 2

Ids == 1..MaxUsers
Procs == 1..MaxProcs
Emails == {"a@x", "A@x", "b@x"}
Nicknames == {"n1", "n2"}
Passwords == {"pw1", "pw2"}
Tokens == {"t1", "t2"}
Roles == {"ANONYMOUS", "AUTHENTICATED", "ADMIN"}
CreateRoles == {"ANONYMOUS"}
SeedRoles == {"ANONYMOUS", "ADMIN"}
SeedPasswords == {"pw1"}
SeedTokens == {"t1"}
FaultSteps == 1..4

\* None for a nullable column / an absent patch field
NoToken == "null"
Unset == "unset"
NoTime == <<>>

\* func.lower on the e-mail addresses of the model
Lower(e) == IF e = "A@x" THEN "a@x" ELSE e

VARIABLES
  accounts,    \* the users table: id -> row
  outbox,      \* verification e-mails handed to the e-mail collaborator
  now,         \* the clock datetime.now reads
  last,        \* the last call: operation, arguments, what it returned
  run,         \* id -> wrong-password login calls in a row since the account
               \*       was verified, unlocked and had a zero counter (-1: none)
  wrongSince,  \* id -> wrong-password logins that reached the password check
               \*       since the last successful login, reset, unlock or creation
  req,         \* the arguments of the last call and the rows it listed
  pc,          \* request -> where the call it runs stands
  loc,         \* request -> the locals of that call: arguments, the row it loaded
  dbUnique,    \* the users table rejects a duplicate email or nickname
  passed,      \* id -> wrong-password logins that passed the password check
               \*       since the counter of the account was last reset
  verifiedAs   \* id -> the email the account held when its verification
               \*       succeeded ("none": not verified)

vars == <<accounts, outbox, now, last, run, wrongSince,
          req, pc, loc, dbUnique, passed, verifiedAs>>

\* no call recorded, no call in flight
NoReq == [op |-> "none"]
NoLocal == [op |-> "none"]

\* a call that runs from its first round trip to its return with no other
\* request in between, its arguments not recorded
Sequential ==
  /\ req' = NoReq
  /\ UNCHANGED <<pc, loc, dbUnique, passed, verifiedAs>>

\* the same, the email of each verification kept in verifiedAs: an account
\* whose email_verified goes to true in the step is verified as the email it
\* holds then
Tracked ==
  /\ req' = NoReq
  /\ UNCHANGED <<pc, loc, dbUnique, passed>>
  /\ verifiedAs' =
       [i \in Ids |->
          IF i \in DOMAIN accounts' /\ accounts'[i].email_verified
            THEN IF i \in DOMAIN accounts /\ accounts[i].email_verified
                   THEN verifiedAs[i] ELSE accounts'[i].email
            ELSE "none"]

\* ---------------------------------------------------------- collaborators
\* app.utils.security: hash_password / verify_password
HashPassword(p) == <<"hashed", p>>
VerifyPassword(p, h) == h = HashPassword(p)

\* The columns create does not set, at their defaults (data model of the
\* account): unverified, no token, unlocked, zero counter, never logged in.
UserDefaults ==
  [email_verified |-> FALSE, verification_token |-> NoToken,
   is_locked |-> FALSE, failed_login_attempts |-> 0,
   last_login_at |-> NoTime]

\* validated_data with the password replaced by its hash, then
\* User(**validated_data): the row a new account starts as
NewUser(email, nickname, password, role) ==
  [email |-> email, nickname |-> nickname,
   hashed_password |-> HashPassword(password), role |-> role] @@ UserDefaults

\* ------------------------------------------------------------- the lookups
\* _fetch_user: select(User).filter_by(field = value); the ids of the rows
FetchUser(field, value) == {i \in DOMAIN accounts : accounts[i][field] = value}

\* get_by_id
GetById(id) == IF id \in DOMAIN accounts THEN {id} ELSE {}

\* ------------------------------------------------------------ the last call
\* op: the operation; uid: the account addressed, found or created (0: none);
\* arg: the e-mail given to create, the password given to login_user and
\* reset_password; ret: what the call returned; fault: a round trip of the
\* call failed; rolled: the session was rolled back; raised: the exception
\* left the service.
Returned(op, uid, arg, ret, fault) ==
  [op |-> op, uid |-> uid, arg |-> arg, ret |-> ret,
   raised |-> FALSE, rolled |-> fault, fault |-> fault]

Raised(op, uid, arg) ==
  [op |-> op, uid |-> uid, arg |-> arg, ret |-> "Raised",
   raised |-> TRUE, rolled |-> FALSE, fault |-> TRUE]

\* ------------------------------------------------------------- bookkeeping
Clean(u) == u.email_verified /\ ~u.is_locked /\ u.failed_login_attempts = 0

\* run after an operation that re-establishes (or ends) the start of a run
Restart(acc, id) ==
  [run EXCEPT ![id] = IF id \in DOMAIN acc /\ Clean(acc[id]) THEN 0 ELSE -1]

\* run after one more wrong-password login call on the account
Advance(id) ==
  [run EXCEPT ![id] = IF @ < 0 THEN @
                      ELSE IF @ > MaxLoginAttempts THEN @ ELSE @ + 1]

\* --------------------------------------------------------------- the seeds
\* Accounts the gateway holds when the service starts: onboarded as Section 4.1
\* of the specification states the contract (a verification token generated),
\* unverified, unlocked, zero counter.
SeedUsers ==
  {[NewUser(e, n, p, r) EXCEPT !.verification_token = t] :
     e \in Emails, n \in Nicknames, p \in SeedPasswords, r \in SeedRoles,
     t \in SeedTokens}

UniqueIn(acc) ==
  \A i, j \in DOMAIN acc :
    i # j => /\ acc[i].email # acc[j].email
             /\ acc[i].nickname # acc[j].nickname

SeedTables ==
  {acc \in UNION {[S -> SeedUsers] : S \in SUBSET Ids} :
     Cardinality(DOMAIN acc) <= MaxSeeds /\ UniqueIn(acc)}

Init ==
  /\ accounts \in SeedTables
  /\ outbox = {}
  /\ now = 0
  /\ last = Returned("init", 0, "", "None", FALSE)
  /\ run = [i \in Ids |-> -1]
  /\ wrongSince = [i \in Ids |-> 0]
  /\ req = NoReq
  /\ pc = [p \in Procs |-> "idle"]
  /\ loc = [p \in Procs |-> NoLocal]
  /\ dbUnique = FALSE
  /\ passed = [i \in Ids |-> 0]
  /\ verifiedAs = [i \in Ids |-> "none"]

\* ------------------------------------------------------------------ create
\* create / register_user.  Round trips: 1 get_by_email, 2 get_by_nickname,
\* 3 the commit of the insert.  A failed lookup is absorbed by _execute_query
\* and reads as "no such user".

\* create without its duplicate-email check
EmailTakenNever(email, F) == FALSE

EmailTaken(email, F) == 1 \notin F /\ FetchUser("email", email) # {}

NicknameTaken(nickname, F) == 2 \notin F /\ FetchUser("nickname", nickname) # {}

\* a create that looks at the table again as it inserts
PersistIfFree(acc, id, row) ==
  IF \E i \in DOMAIN acc :
       acc[i].email = row.email \/ acc[i].nickname = row.nickname
    THEN acc ELSE (id :> row) @@ acc

\* session.add(new_user) and the commit: the row is in the table
Persist(acc, id, row) == (id :> row) @@ acc

CreateAs(op, valid, email, nickname, password, role, F) ==
  /\ UNCHANGED <<outbox, now>>
  /\ IF ~valid
       THEN \* ValidationError
            /\ last' = Returned(op, 0, email, "None", FALSE)
            /\ UNCHANGED <<accounts, run, wrongSince>>
     ELSE IF EmailTaken(email, F)
       THEN /\ last' = Returned(op, 0, email, "None", FALSE)
            /\ UNCHANGED <<accounts, run, wrongSince>>
     ELSE IF NicknameTaken(nickname, F)
       THEN /\ last' = Returned(op, 0, email, "None", 1 \in F)
            /\ UNCHANGED <<accounts, run, wrongSince>>
     ELSE IF 3 \in F
       THEN \* the commit raises: neither ValidationError nor ValueError
            /\ last' = Raised(op, 0, email)
            /\ UNCHANGED <<accounts, run, wrongSince>>
     ELSE \E id \in Ids \ DOMAIN accounts :
            /\ accounts' = Persist(accounts, id,
                                    NewUser(email, nickname, password, role))
            /\ last' = Returned(op, id, email, "Account",
                                (1 \in F) \/ (2 \in F))
            /\ run' = [run EXCEPT ![id] = -1]
            /\ wrongSince' = [wrongSince EXCEPT ![id] = 0]

Create(valid, email, nickname, password, role, F) ==
  CreateAs("create", valid, email, nickname, password, role, F)

RegisterUser(valid, email, nickname, password, role, F) ==
  CreateAs("create", valid, email, nickname, password, role, F)

\* ------------------------------------------------------------------- login
\* a successful login that leaves last_login_at alone
LoginSuccessNoStamp(u, t) == [u EXCEPT !.failed_login_attempts = 0]

\* a successful login that leaves the counter alone
LoginSuccessKeepCount(u, t) == [u EXCEPT !.last_login_at = <<t>>]

LoginSuccess(u, t) ==
  [u EXCEPT !.failed_login_attempts = 0, !.last_login_at = <<t>>]

\* the threshold compared with > instead of >=
LoginFailureOffByOne(u) ==
  [u EXCEPT !.failed_login_attempts = @ + 1,
            !.is_locked = IF u.failed_login_attempts + 1 > MaxLoginAttempts
                          THEN TRUE ELSE @]

\* a failed login that locks whatever the counter
LoginFailureLockAlways(u) ==
  [u EXCEPT !.failed_login_attempts = @ + 1, !.is_locked = TRUE]

LoginFailure(u) ==
  [u EXCEPT !.failed_login_attempts = @ + 1,
            !.is_locked = IF u.failed_login_attempts + 1 >= MaxLoginAttempts
                          THEN TRUE ELSE @]

\* a login that looks at the lock only
NotAdmittedIfLocked(u) == u.is_locked

\* user.email_verified is False, user.is_locked: return None before the
\* password is looked at
NotAdmitted(u) == (~u.email_verified) \/ u.is_locked

\* login_user.  Round trips: 1 get_by_email, 2 the commit.  t is what
\* datetime.now returns inside the call: the time of the call or later.
LoginUser(email, password, F) ==
  /\ UNCHANGED outbox
  /\ IF 1 \in F \/ FetchUser("email", email) = {}
       THEN /\ last' = Returned("login_user", 0, password, "None", 1 \in F)
            /\ UNCHANGED <<accounts, now, run, wrongSince>>
     ELSE \E i \in FetchUser("email", email) :
       LET u == accounts[i]
           wrong == ~VerifyPassword(password, u.hashed_password)
       IN
       IF NotAdmitted(u)
         THEN /\ last' = Returned("login_user", i, password, "None", FALSE)
              /\ run' = IF wrong THEN Advance(i) ELSE run
              /\ UNCHANGED <<accounts, now, wrongSince>>
       ELSE IF 2 \in F
         THEN /\ last' = Raised("login_user", i, password)
              /\ UNCHANGED <<accounts, now, run, wrongSince>>
       ELSE IF ~wrong
         THEN \E t \in now..MaxTime :
              /\ accounts' = [accounts EXCEPT ![i] = LoginSuccess(u, t)]
              /\ now' = t
              /\ last' = Returned("login_user", i, password, "Account", FALSE)
              /\ run' = Restart(accounts', i)
              /\ wrongSince' = [wrongSince EXCEPT ![i] = 0]
       ELSE   /\ accounts' = [accounts EXCEPT ![i] = LoginFailure(u)]
              /\ last' = Returned("login_user", i, password, "None", FALSE)
              /\ run' = Advance(i)
              /\ wrongSince' = [wrongSince EXCEPT ![i] = @ + 1]
              /\ UNCHANGED now

\* ------------------------------------------------------------------ update
\* The row .first() returns for a lookup: one of the matching rows, 0 for None
FirstOf(S) == IF S = {} THEN {0} ELSE S

\* .values(**validated_data), password replaced by its hash
ApplyPatch(u, patch) ==
  [u EXCEPT !.email = IF patch.email = Unset THEN @ ELSE patch.email,
            !.nickname = IF patch.nickname = Unset THEN @ ELSE patch.nickname,
            !.hashed_password = IF patch.password = Unset THEN @
                                ELSE HashPassword(patch.password)]

\* update without its uniqueness re-check
ConflictNever(found, id) == FALSE

\* update that takes the account's own email or nickname for a conflict
ConflictWithSelf(found, id) == found # 0

\* existing_user and existing_user.id != user_id
Conflict(found, id) == found # 0 /\ found # id

\* update.  Round trips: 1 get_by_email, 2 get_by_nickname, 3 the UPDATE
\* statement, 4 get_by_id.  Every exception is caught (except Exception).
Update(id, valid, patch, F) ==
  /\ UNCHANGED <<outbox, now, run, wrongSince>>
  /\ IF ~valid
       THEN /\ last' = Returned("update", id, "", "None", FALSE)
            /\ UNCHANGED accounts
     ELSE
       \E je \in FirstOf(IF patch.email = Unset \/ 1 \in F THEN {}
                         ELSE FetchUser("email", patch.email)),
          jn \in FirstOf(IF patch.nickname = Unset \/ 2 \in F THEN {}
                         ELSE FetchUser("nickname", patch.nickname)) :
         LET f1 == patch.email # Unset /\ 1 \in F
             f2 == patch.nickname # Unset /\ 2 \in F
         IN
         IF Conflict(je, id)
           THEN /\ last' = Returned("update", id, "", "None", FALSE)
                /\ UNCHANGED accounts
         ELSE IF Conflict(jn, id)
           THEN /\ last' = Returned("update", id, "", "None", f1)
                /\ UNCHANGED accounts
         ELSE
           /\ accounts' = IF 3 \in F \/ id \notin DOMAIN accounts THEN accounts
                          ELSE [accounts EXCEPT ![id] = ApplyPatch(@, patch)]
           /\ last' = Returned("update", id, "",
                               IF 4 \in F \/ id \notin DOMAIN accounts
                                 THEN "None" ELSE "Account",
                               f1 \/ f2 \/ (3 \in F) \/ (4 \in F))

\* ------------------------------------------------------------------ delete
\* a delete that empties the table
RemoveAll(acc, id) == [i \in {} |-> acc[i]]

\* session.delete(user) and the commit: the table without the row
Remove(acc, id) == [i \in DOMAIN acc \ {id} |-> acc[i]]

\* delete.  Round trips: 1 get_by_id, 2 the commit.
Delete(id, F) ==
  /\ UNCHANGED <<outbox, now>>
  /\ IF 1 \in F \/ GetById(id) = {}
       THEN /\ last' = Returned("delete", id, "", "False", 1 \in F)
            /\ UNCHANGED <<accounts, run, wrongSince>>
     ELSE IF 2 \in F
       THEN /\ last' = Raised("delete", id, "")
            /\ UNCHANGED <<accounts, run, wrongSince>>
     ELSE /\ accounts' = Remove(accounts, id)
          /\ last' = Returned("delete", id, "", "True", FALSE)
          /\ run' = [run EXCEPT ![id] = -1]
          /\ wrongSince' = [wrongSince EXCEPT ![id] = 0]

\* ---------------------------------------------------------- reset_password
\* a reset that leaves the lock in place
ResetAccountKeepLock(u, password) ==
  [u EXCEPT !.hashed_password = HashPassword(password),
            !.failed_login_attempts = 0]

ResetAccount(u, password) ==
  [u EXCEPT !.hashed_password = HashPassword(password),
            !.failed_login_attempts = 0, !.is_locked = FALSE]

\* reset_password.  Round trips: 1 get_by_id, 2 the commit.
ResetPassword(id, password, F) ==
  /\ UNCHANGED <<outbox, now>>
  /\ IF 1 \in F \/ GetById(id) = {}
       THEN /\ last' = Returned("reset_password", id, password, "False", 1 \in F)
            /\ UNCHANGED <<accounts, run, wrongSince>>
     ELSE IF 2 \in F
       THEN /\ last' = Raised("reset_password", id, password)
            /\ UNCHANGED <<accounts, run, wrongSince>>
     ELSE /\ accounts' = [accounts EXCEPT ![id] = ResetAccount(@, password)]
          /\ last' = Returned("reset_password", id, password, "True", FALSE)
          /\ run' = Restart(accounts', id)
          /\ wrongSince' = [wrongSince EXCEPT ![id] = 0]

\* ------------------------------------------------- verify_email_with_token
\* a verification that clears the token and forgets the flag
VerifyAccountNoFlag(u) ==
  [u EXCEPT !.verification_token = NoToken,
            !.role = IF @ = "ANONYMOUS" THEN "AUTHENTICATED" ELSE @]

\* a verification that leaves the token in place
VerifyAccountKeepToken(u) ==
  [u EXCEPT !.email_verified = TRUE,
            !.role = IF @ = "ANONYMOUS" THEN "AUTHENTICATED" ELSE @]

\* a verification that makes every role AUTHENTICATED
VerifyAccountPromoteAll(u) ==
  [u EXCEPT !.email_verified = TRUE, !.verification_token = NoToken,
            !.role = "AUTHENTICATED"]

VerifyAccount(u) ==
  [u EXCEPT !.email_verified = TRUE, !.verification_token = NoToken,
            !.role = IF @ = "ANONYMOUS" THEN "AUTHENTICATED" ELSE @]

\* a verification that takes any token
TokenMatchesAny(u, token) == TRUE

\* user.verification_token == token
TokenMatches(u, token) == u.verification_token = token

\* verify_email_with_token.  Round trips: 1 get_by_id, 2 the commit.
VerifyEmailWithToken(id, token, F) ==
  /\ UNCHANGED <<outbox, now, wrongSince>>
  /\ IF 1 \in F \/ GetById(id) = {}
       THEN /\ last' = Returned("verify_email_with_token", id, "", "False", 1 \in F)
            /\ UNCHANGED <<accounts, run>>
     ELSE IF accounts[id].email_verified \/ ~TokenMatches(accounts[id], token)
       THEN /\ last' = Returned("verify_email_with_token", id, "", "False", FALSE)
            /\ UNCHANGED <<accounts, run>>
     ELSE IF 2 \in F
       THEN /\ last' = Raised("verify_email_with_token", id, "")
            /\ UNCHANGED <<accounts, run>>
     ELSE /\ accounts' = [accounts EXCEPT ![id] = VerifyAccount(@)]
          /\ last' = Returned("verify_email_with_token", id, "", "True", FALSE)
          /\ run' = Restart(accounts', id)

\* ------------------------------------------------------ unlock_user_account
\* an unlock that leaves the counter where it was
UnlockAccountKeepCount(u) == [u EXCEPT !.is_locked = FALSE]

UnlockAccount(u) == [u EXCEPT !.is_locked = FALSE, !.failed_login_attempts = 0]

\* unlock_user_account.  Round trips: 1 get_by_id, 2 the commit.
UnlockUserAccount(id, F) ==
  /\ UNCHANGED <<outbox, now>>
  /\ IF 1 \in F \/ GetById(id) = {}
       THEN /\ last' = Returned("unlock_user_account", id, "", "False", 1 \in F)
            /\ UNCHANGED <<accounts, run, wrongSince>>
     ELSE IF ~accounts[id].is_locked
       THEN /\ last' = Returned("unlock_user_account", id, "", "False", FALSE)
            /\ UNCHANGED <<accounts, run, wrongSince>>
     ELSE IF 2 \in F
       THEN /\ last' = Raised("unlock_user_account", id, "")
            /\ UNCHANGED <<accounts, run, wrongSince>>
     ELSE /\ accounts' = [accounts EXCEPT ![id] = UnlockAccount(@)]
          /\ last' = Returned("unlock_user_account", id, "", "True", FALSE)
          /\ run' = Restart(accounts', id)
          /\ wrongSince' = [wrongSince EXCEPT ![id] = 0]

\* ---------------------------------------------------------------- the reads
\* get_by_id / get_by_nickname / get_by_email: one round trip, absorbed
GetBy(field, value, F) ==
  /\ UNCHANGED <<accounts, outbox, now, run, wrongSince>>
  /\ \E i \in FirstOf(IF 1 \in F THEN {}
                      ELSE IF field = "id" THEN GetById(value)
                      ELSE FetchUser(field, value)) :
       last' = Returned("get_by_" \o field, 0, "",
                        IF i = 0 THEN "None" ELSE "Account", 1 \in F)

\* is_account_locked: user.is_locked if user else False
IsAccountLocked(email, F) ==
  /\ UNCHANGED <<accounts, outbox, now, run, wrongSince>>
  /\ \E i \in FirstOf(IF 1 \in F THEN {} ELSE FetchUser("email", email)) :
       last' = Returned("is_account_locked", 0, "",
                        IF i # 0 /\ accounts[i].is_locked THEN "True" ELSE "False",
                        1 \in F)

\* count: session.execute outside _execute_query
Count(F) ==
  /\ UNCHANGED <<accounts, outbox, now, run, wrongSince>>
  /\ last' = IF 1 \in F THEN Raised("count", 0, "")
             ELSE Returned("count", 0, "", "Count", FALSE)

\* ------------------------------------------------------------ search_users
\* The orders in which the gateway may list the rows S: the query has no
\* ORDER BY.
RECURSIVE Orders(_)
Orders(S) ==
  IF S = {} THEN {<<>>}
  ELSE UNION {{<<i>> \o o : o \in Orders(S \ {i})} : i \in S}

\* account_status.lower() == "locked"
StatusLocked(status) == status \in {"locked", "Locked"}

\* the filters combined with OR
MatchesEither(u, q) ==
  \/ q.username # Unset /\ Lower(u.nickname) = Lower(q.username)
  \/ q.email # Unset /\ Lower(u.email) = Lower(q.email)
  \/ q.role # Unset /\ u.role = q.role
  \/ q.account_status # Unset /\ u.is_locked = StatusLocked(q.account_status)

\* query.filter(...) for every filter given: username, email, role,
\* account_status (the rows of the model carry no first_name, last_name or
\* created_at, so these filters are never given)
Matches(u, q) ==
  /\ q.username # Unset => Lower(u.nickname) = Lower(q.username)
  /\ q.email # Unset => Lower(u.email) = Lower(q.email)
  /\ q.role # Unset => u.role = q.role
  /\ q.account_status # Unset => u.is_locked = StatusLocked(q.account_status)

\* .offset(skip).limit(limit)
Window(rows, skip, limit) ==
  IF skip >= Len(rows) \/ limit = 0 THEN <<>>
  ELSE SubSeq(rows, skip + 1,
              IF skip + limit < Len(rows) THEN skip + limit ELSE Len(rows))

\* UserResponse(...) of the row i
UserResponseOf(i) ==
  [id |-> i, email |-> accounts[i].email, nickname |-> accounts[i].nickname,
   role |-> accounts[i].role,
   account_status |-> IF ~accounts[i].is_locked THEN "Active" ELSE "Locked"]

\* search_users.  One round trip, absorbed: a failed query lists nothing.
SearchUsers(q, F) ==
  /\ UNCHANGED <<accounts, outbox, now, run, wrongSince,
                 pc, loc, dbUnique, passed, verifiedAs>>
  /\ last' = Returned("search_users", 0, "", "List", 1 \in F)
  /\ \E o \in (IF 1 \in F THEN {<<>>}
               ELSE Orders({i \in DOMAIN accounts : Matches(accounts[i], q)})) :
       LET w == Window(o, q.skip, q.limit)
       IN req' = [op |-> "search_users", query |-> q,
                  rows |-> [k \in DOMAIN w |-> UserResponseOf(w[k])]]

\* ------------------------------------------- the calls, one round trip at a time
\* Requests in flight at once, each with its own session: a step is one round
\* trip of one request (with the local computation that follows it), the row a
\* request loaded stays in loc as loaded.  The sequential bookkeeping (run,
\* wrongSince) and req are not kept here.
Step(p, at, locals) ==
  /\ pc' = [pc EXCEPT ![p] = at]
  /\ loc' = [loc EXCEPT ![p] = locals]

Return(p, result) ==
  /\ pc' = [pc EXCEPT ![p] = "idle"]
  /\ loc' = [loc EXCEPT ![p] = NoLocal]
  /\ last' = result

\* the creates that passed their first check and have not returned
Creating == {p \in Procs : pc[p] \in {"create_nickname", "create_commit"}}

\* The users table with unique indexes on email and nickname (dbUnique)
\* rejects the insert of a duplicate: IntegrityError.
Rejects(row) ==
  /\ dbUnique
  /\ \E i \in DOMAIN accounts :
       accounts[i].email = row.email \/ accounts[i].nickname = row.nickname

\* create up to its first round trip: validation, get_by_email.  A create
\* starts while the table has room for the row it may insert.
CreateGetByEmail(p, valid, email, nickname, password, role) ==
  /\ pc[p] = "idle"
  /\ Cardinality(DOMAIN accounts) + Cardinality(Creating) < MaxUsers
  /\ UNCHANGED <<accounts, outbox, now, run, wrongSince, req, dbUnique, passed,
                 verifiedAs>>
  /\ IF ~valid \/ EmailTaken(email, {})
       THEN Return(p, Returned("create", 0, email, "None", FALSE))
       ELSE /\ Step(p, "create_nickname",
                    [op |-> "create", email |-> email, nickname |-> nickname,
                     password |-> password, role |-> role])
            /\ UNCHANGED last

\* create, second round trip: get_by_nickname
CreateGetByNickname(p) ==
  /\ pc[p] = "create_nickname"
  /\ UNCHANGED <<accounts, outbox, now, run, wrongSince, req, dbUnique, passed,
                 verifiedAs>>
  /\ IF NicknameTaken(loc[p].nickname, {})
       THEN Return(p, Returned("create", 0, loc[p].email, "None", FALSE))
       ELSE Step(p, "create_commit", loc[p]) /\ UNCHANGED last

\* create, third round trip: session.add and the commit.  An IntegrityError
\* is neither a ValidationError nor a ValueError: it leaves the service.
CreateCommit(p) ==
  /\ pc[p] = "create_commit"
  /\ UNCHANGED <<outbox, now, run, wrongSince, req, dbUnique, passed,
                 verifiedAs>>
  /\ LET row == NewUser(loc[p].email, loc[p].nickname, loc[p].password,
                        loc[p].role)
     IN IF Rejects(row)
          THEN /\ Return(p, Raised("create", 0, loc[p].email))
               /\ UNCHANGED accounts
          ELSE \E id \in Ids \ DOMAIN accounts :
                 /\ accounts' = Persist(accounts, id, row)
                 /\ Return(p, Returned("create", id, loc[p].email, "Account",
                                       FALSE))

\* session.add(user) and the commit of a loaded row: the UPDATE carries the
\* columns whose value differs from the value loaded, and only those
Flush(row, loaded, new) ==
  [f \in DOMAIN row |-> IF new[f] # loaded[f] THEN new[f] ELSE row[f]]

\* login_user up to its first round trip: get_by_email, then the checks of
\* the row loaded (verified, not locked).  The counters of the model are
\* capped at MaxLoginAttempts + 1.
LoginGetByEmail(p, email, password) ==
  /\ pc[p] = "idle"
  /\ UNCHANGED <<accounts, outbox, now, run, wrongSince, req, dbUnique, passed,
                 verifiedAs>>
  /\ IF FetchUser("email", email) = {}
       THEN Return(p, Returned("login_user", 0, password, "None", FALSE))
       ELSE \E i \in FetchUser("email", email) :
              /\ accounts[i].failed_login_attempts <= MaxLoginAttempts
              /\ IF NotAdmitted(accounts[i])
                   THEN Return(p, Returned("login_user", i, password, "None",
                                           FALSE))
                   ELSE /\ Step(p, "login_check",
                                [op |-> "login_user", id |-> i,
                                 password |-> password, user |-> accounts[i]])
                        /\ UNCHANGED last

\* login_user: verify_password on the row loaded, and the new values of its
\* columns
LoginCheck(p) ==
  /\ pc[p] = "login_check"
  /\ passed[loc[p].id] <= MaxLoginAttempts
  /\ UNCHANGED <<accounts, outbox, now, last, run, wrongSince, req, dbUnique,
                 verifiedAs>>
  /\ LET u == loc[p].user
         wrong == ~VerifyPassword(loc[p].password, u.hashed_password)
     IN /\ Step(p, "login_commit",
                [op |-> "login_user", id |-> loc[p].id,
                 password |-> loc[p].password, user |-> u, wrong |-> wrong,
                 new |-> IF wrong THEN LoginFailure(u) ELSE LoginSuccess(u, now)])
        /\ passed' = IF wrong THEN [passed EXCEPT ![loc[p].id] = @ + 1]
                     ELSE passed

\* login_user, second round trip: the commit
LoginCommit(p) ==
  /\ pc[p] = "login_commit"
  /\ UNCHANGED <<outbox, now, run, wrongSince, req, dbUnique, verifiedAs>>
  /\ accounts' = [accounts EXCEPT ![loc[p].id] =
                    Flush(@, loc[p].user, loc[p].new)]
  /\ passed' = IF loc[p].wrong THEN passed
               ELSE [passed EXCEPT ![loc[p].id] = 0]
  /\ Return(p, Returned("login_user", loc[p].id, loc[p].password,
                        IF loc[p].wrong THEN "None" ELSE "Account", FALSE))

\* reset_password up to its first round trip: get_by_id
ResetGetById(p, id, password) ==
  /\ pc[p] = "idle"
  /\ UNCHANGED <<accounts, outbox, now, run, wrongSince, req, dbUnique, passed,
                 verifiedAs>>
  /\ IF GetById(id) = {}
       THEN Return(p, Returned("reset_password", id, password, "False", FALSE))
       ELSE /\ Step(p, "reset_commit",
                    [op |-> "reset_password", id |-> id, password |-> password,
                     user |-> accounts[id]])
            /\ UNCHANGED last

\* reset_password, second round trip: the commit
ResetCommit(p) ==
  /\ pc[p] = "reset_commit"
  /\ UNCHANGED <<outbox, now, run, wrongSince, req, dbUnique, verifiedAs>>
  /\ accounts' = [accounts EXCEPT ![loc[p].id] =
                    Flush(@, loc[p].user,
                          ResetAccount(loc[p].user, loc[p].password))]
  /\ passed' = [passed EXCEPT ![loc[p].id] = 0]
  /\ Return(p, Returned("reset_password", loc[p].id, loc[p].password, "True",
                        FALSE))

\* unlock_user_account up to its first round trip: get_by_id, is_locked
UnlockGetById(p, id) ==
  /\ pc[p] = "idle"
  /\ UNCHANGED <<accounts, outbox, now, run, wrongSince, req, dbUnique, passed,
                 verifiedAs>>
  /\ IF GetById(id) = {} \/ ~accounts[id].is_locked
       THEN Return(p, Returned("unlock_user_account", id, "", "False", FALSE))
       ELSE /\ Step(p, "unlock_commit",
                    [op |-> "unlock_user_account", id |-> id,
                     user |-> accounts[id]])
            /\ UNCHANGED last

\* unlock_user_account, second round trip: the commit
UnlockCommit(p) ==
  /\ pc[p] = "unlock_commit"
  /\ UNCHANGED <<outbox, now, run, wrongSince, req, dbUnique, verifiedAs>>
  /\ accounts' = [accounts EXCEPT ![loc[p].id] =
                    Flush(@, loc[p].user, UnlockAccount(loc[p].user))]
  /\ passed' = [passed EXCEPT ![loc[p].id] = 0]
  /\ Return(p, Returned("unlock_user_account", loc[p].id, "", "True", FALSE))

\* ------------------------------------------------------- the specifications
\* user_data of create over e-mails E, nicknames N and passwords P: what
\* UserCreate accepts (valid) and, per e-mail, one mapping it rejects with a
\* ValidationError
UserData(E, N, P) ==
  {d \in [valid : BOOLEAN, email : E, nickname : N, password : P,
          role : CreateRoles] :
     d.valid \/ (d.nickname = "n1" /\ d.password = "pw1")}

\* the patches UserUpdate accepts: any fields of email, nickname, password, at
\* least one
Patches(E, N, P) ==
  {p \in [email : E \cup {Unset}, nickname : N \cup {Unset},
          password : P \cup {Unset}] :
     ~(p.email = Unset /\ p.nickname = Unset /\ p.password = Unset)}

\* update_data of update: the patches UserUpdate accepts and one it rejects
UpdateData(E, N, P) ==
  {d \in [valid : BOOLEAN, patch : Patches(E, N, P)] :
     d.valid \/ d.patch = [email |-> Unset, nickname |-> "n1", password |-> Unset]}

\* one call of the service, its round trips in F failing, its arguments drawn
\* from the e-mails E, the nicknames N and the passwords P
Call(F, E, N, P) ==
  \/ \E d \in UserData(E, N, P) :
       Create(d.valid, d.email, d.nickname, d.password, d.role, F) /\ Sequential
  \/ \E d \in UserData(E, N, P) :
       RegisterUser(d.valid, d.email, d.nickname, d.password, d.role, F)
         /\ Sequential
  \/ \E id \in Ids, d \in UpdateData(E, N, P) :
       Update(id, d.valid, d.patch, F) /\ Sequential
  \/ \E id \in Ids : Delete(id, F) /\ Sequential
  \/ \E e \in E, p \in P : LoginUser(e, p, F) /\ Sequential
  \/ \E id \in Ids, p \in P : ResetPassword(id, p, F) /\ Sequential
  \/ \E id \in Ids, tok \in Tokens :
       VerifyEmailWithToken(id, tok, F) /\ Sequential
  \/ \E id \in Ids : UnlockUserAccount(id, F) /\ Sequential
  \/ \E id \in Ids : GetBy("id", id, F) /\ Sequential
  \/ \E e \in E : GetBy("email", e, F) /\ Sequential
  \/ \E n \in N : GetBy("nickname", n, F) /\ Sequential
  \/ \E e \in E : IsAccountLocked(e, F) /\ Sequential
  \/ Count(F) /\ Sequential

\* every round trip to the gateway is served
Next == Call({}, Emails, Nicknames, Passwords)

Spec == Init /\ [][Next]_vars

\* The gateway may fail: any set of round trips of a call may raise.  The
\* calls are those on one e-mail address and one nickname, over a table that
\* starts with at most one account of that address.
FaultSets == SUBSET FaultSteps
FaultEmails == {"a@x"}
FaultNicknames == {"n1"}

InitFault ==
  /\ Init
  /\ \A i \in DOMAIN accounts :
       accounts[i].email \in FaultEmails /\ accounts[i].nickname \in FaultNicknames

NextFault == \E F \in FaultSets : Call(F, FaultEmails, FaultNicknames, Passwords)

SpecFault == InitFault /\ [][NextFault]_vars

\* The calls one after the other, their arguments recorded in req, over two
\* e-mail addresses that differ in case only.
TraceEmails == {"a@x", "A@x"}

InitTrace ==
  /\ Init
  /\ \A i \in DOMAIN accounts : accounts[i].email \in TraceEmails

\* the queries given to search_users
Queries ==
  [username : {Unset, "n1"}, email : {Unset, "A@x"},
   role : {Unset, "ADMIN"},
   account_status : {Unset, "locked", "active"},
   skip : 0..1, limit : 0..MaxLimit]

\* search_users over the tables that create, verify_email_with_token and
\* failing logins build
NextSearch ==
  \/ \E d \in UserData(TraceEmails, Nicknames, SeedPasswords) :
       Create(d.valid, d.email, d.nickname, d.password, d.role, {}) /\ Sequential
  \/ \E e \in TraceEmails : LoginUser(e, "pw2", {}) /\ Sequential
  \/ \E id \in Ids, tok \in SeedTokens :
       VerifyEmailWithToken(id, tok, {}) /\ Sequential
  \/ \E q \in Queries : SearchUsers(q, {})

SpecSearch == InitTrace /\ [][NextSearch]_vars

\* update, its patch recorded, over the tables that create and delete build
NextUpdate ==
  \/ \E d \in UserData(TraceEmails, Nicknames, SeedPasswords) :
       Create(d.valid, d.email, d.nickname, d.password, d.role, {}) /\ Sequential
  \/ \E id \in Ids : Delete(id, {}) /\ Sequential
  \/ \E id \in Ids, d \in UpdateData(TraceEmails, Nicknames, Passwords) :
       /\ Update(id, d.valid, d.patch, {})
       /\ req' = [op |-> "update", id |-> id, valid |-> d.valid,
                  patch |-> d.patch]
       /\ UNCHANGED <<pc, loc, dbUnique, passed, verifiedAs>>

SpecUpdate == InitTrace /\ [][NextUpdate]_vars

\* Concurrent creates, over a users table that has unique indexes or has not.
InitCreateRace ==
  /\ accounts \in SeedTables
  /\ outbox = {}
  /\ now = 0
  /\ last = Returned("init", 0, "", "None", FALSE)
  /\ run = [i \in Ids |-> -1]
  /\ wrongSince = [i \in Ids |-> 0]
  /\ req = NoReq
  /\ pc = [p \in Procs |-> "idle"]
  /\ loc = [p \in Procs |-> NoLocal]
  /\ dbUnique \in BOOLEAN
  /\ passed = [i \in Ids |-> 0]
  /\ verifiedAs = [i \in Ids |-> "none"]

NextCreateRace ==
  \E p \in Procs :
    \/ \E d \in UserData(Emails, Nicknames, SeedPasswords) :
         CreateGetByEmail(p, d.valid, d.email, d.nickname, d.password, d.role)
    \/ CreateGetByNickname(p)
    \/ CreateCommit(p)

SpecCreateRace == InitCreateRace /\ [][NextCreateRace]_vars

\* Concurrent login_user, reset_password and unlock_user_account calls on one
\* account, which verify_email_with_token verifies first.
InitLoginRace == InitFault

NextLoginRace ==
  \/ \E id \in Ids, tok \in SeedTokens :
       VerifyEmailWithToken(id, tok, {}) /\ Sequential
  \/ \E p \in Procs :
       \/ \E e \in FaultEmails, pw \in Passwords : LoginGetByEmail(p, e, pw)
       \/ LoginCheck(p)
       \/ LoginCommit(p)
       \/ \E id \in Ids, pw \in SeedPasswords : ResetGetById(p, id, pw)
       \/ ResetCommit(p)
       \/ \E id \in Ids : UnlockGetById(p, id)
       \/ UnlockCommit(p)

SpecLoginRace == InitLoginRace /\ [][NextLoginRace]_vars

\* create, update, verify_email_with_token and delete one after the other,
\* the email of each verification kept.
NextVerified ==
  \/ \E d \in UserData(Emails, Nicknames, SeedPasswords) :
       Create(d.valid, d.email, d.nickname, d.password, d.role, {}) /\ Tracked
  \/ \E id \in Ids, d \in UpdateData(Emails, Nicknames, SeedPasswords) :
       Update(id, d.valid, d.patch, {}) /\ Tracked
  \/ \E id \in Ids, tok \in Tokens : VerifyEmailWithToken(id, tok, {}) /\ Tracked
  \/ \E id \in Ids : Delete(id, {}) /\ Tracked

SpecVerified == Init /\ [][NextVerified]_vars

\* ============================================================= the claims
\* C1 (lockout threshold): from a verified, unlocked account with a zero
\* counter, each of the first MaxLoginAttempts - 1 wrong-password login_user
\* calls in a row leaves is_locked false and the MaxLoginAttempts-th leaves it
\* true; a login_user call on an account that is locked returns no account,
\* whatever the password.
LockoutAtThreshold ==
  \A i \in DOMAIN accounts :
    /\ run[i] \in 1..(MaxLoginAttempts - 1) => ~accounts[i].is_locked
    /\ run[i] >= MaxLoginAttempts => accounts[i].is_locked

LockedLoginRefused ==
  (/\ last'.op = "login_user"
   /\ last'.uid \in DOMAIN accounts
   /\ accounts[last'.uid].is_locked)
    => last'.ret = "None"

C1_Lockout == []LockoutAtThreshold /\ [][LockedLoginRefused]_vars

\* the threshold was reached and a login with the right password was refused
C1_Witness ==
  \E i \in DOMAIN accounts :
    /\ run[i] = MaxLoginAttempts
    /\ accounts[i].is_locked
    /\ last.op = "login_user" /\ last.uid = i /\ last.ret = "None"
    /\ VerifyPassword(last.arg, accounts[i].hashed_password)

\* C2 (uniqueness): in every state reached by calls that run one after the
\* other, no two persisted accounts share an email and no two share a nickname.
C2_Unique == UniqueIn(accounts)

\* two accounts persisted, the second written by a create or an update
C2_Witness ==
  /\ Cardinality(DOMAIN accounts) = 2
  /\ last.op \in {"create", "update"}
  /\ last.ret = "Account"

\* C3 as amended: create called with an email exactly equal (same letter case)
\* to a registered account's email returns no account and leaves the persisted
\* accounts unchanged.
C3_ExactDuplicateRejected ==
  [][(last'.op = "create" /\ FetchUser("email", last'.arg) # {})
       => (last'.ret = "None" /\ accounts' = accounts)]_vars

\* C3 as claimed: create called with an email equal, in the same or a different
\* letter case, to a registered account's email returns no account and leaves
\* the persisted accounts unchanged.
C3_AnyCaseDuplicateRejected ==
  [][(last'.op = "create"
      /\ \E i \in DOMAIN accounts : Lower(accounts[i].email) = Lower(last'.arg))
       => (last'.ret = "None" /\ accounts' = accounts)]_vars

\* a create with a registered email was turned down
C3_Witness ==
  /\ last.op = "create"
  /\ last.ret = "None"
  /\ FetchUser("email", last.arg) # {}

\* C4 as claimed: after a create that returns an account, the new account holds
\* a verification token and a verification email for it is in the outbox.
C4_TokenAndEmailOnCreate ==
  (last.op = "create" /\ last.ret = "Account")
    => /\ accounts[last.uid].verification_token # NoToken
       /\ \E m \in outbox : m.uid = last.uid

\* C5 as claimed, its first sentence: no persistence exception escapes the
\* service; a call in which a round trip to the gateway failed has returned
\* (its absence value), not raised.
C5_NoExceptionEscapes == last.fault => ~last.raised

\* C6 as amended: reset_password on an existing account returns true and leaves
\* it unlocked with a zero counter; if the account is email-verified, the next
\* login_user call with its email and the new password returns the account.
ResetClears ==
  (last'.op = "reset_password" /\ last'.uid \in DOMAIN accounts)
    => /\ last'.ret = "True"
       /\ last'.uid \in DOMAIN accounts'
       /\ ~accounts'[last'.uid].is_locked
       /\ accounts'[last'.uid].failed_login_attempts = 0

LoginAfterReset(verifiedOnly) ==
  (/\ last.op = "reset_password" /\ last.ret = "True"
   /\ last'.op = "login_user"
   /\ LoginUser(accounts[last.uid].email, last.arg, {})
   /\ verifiedOnly => accounts[last.uid].email_verified)
    => (last'.ret = "Account" /\ last'.uid = last.uid)

C6_ResetThenLoginVerified ==
  [][ResetClears /\ LoginAfterReset(TRUE)]_vars

\* C6 as claimed: the same, whatever the state of the account before the reset
\* (verified or not).
C6_ResetThenLogin ==
  [][ResetClears /\ LoginAfterReset(FALSE)]_vars

\* a reset has just given a verified account a new password, so that the login
\* that follows reaches the password check
C6_Witness ==
  /\ last.op = "reset_password" /\ last.ret = "True"
  /\ accounts[last.uid].email_verified
  /\ accounts[last.uid].hashed_password = HashPassword("pw2")

\* C7 (successful login): login_user with the right password on a verified,
\* unlocked account returns it, sets failed_login_attempts to 0 and
\* last_login_at to a time not before the call; nothing else changes.
C7_LoginSuccess ==
  [][\A i \in DOMAIN accounts :
       (/\ last'.op = "login_user" /\ last'.uid = i
        /\ accounts[i].email_verified /\ ~accounts[i].is_locked
        /\ VerifyPassword(last'.arg, accounts[i].hashed_password))
         => /\ last'.ret = "Account"
            /\ DOMAIN accounts' = DOMAIN accounts
            /\ accounts'[i].last_login_at # NoTime
            /\ accounts'[i].last_login_at[1] >= now
            /\ accounts' = [accounts EXCEPT
                 ![i] = [@ EXCEPT !.failed_login_attempts = 0,
                                  !.last_login_at = accounts'[i].last_login_at]]
     ]_vars

\* a login succeeded after the clock had moved
C7_Witness ==
  /\ last.op = "login_user" /\ last.ret = "Account"
  /\ now > 0
  /\ accounts[last.uid].last_login_at = <<now>>
  /\ accounts[last.uid].failed_login_attempts = 0

\* C8 (lock transitions): is_locked of an account goes from false to true only
\* in a login_user step on it that leaves failed_login_attempts at
\* MaxLoginAttempts or more, and from true to false only in a reset_password
\* or unlock_user_account step on it.
C8_LockTransitions ==
  [][\A i \in DOMAIN accounts \cap DOMAIN accounts' :
       /\ (~accounts[i].is_locked /\ accounts'[i].is_locked)
            => /\ last'.op = "login_user" /\ last'.uid = i
               /\ accounts'[i].failed_login_attempts >= MaxLoginAttempts
       /\ (accounts[i].is_locked /\ ~accounts'[i].is_locked)
            => /\ last'.op \in {"reset_password", "unlock_user_account"}
               /\ last'.uid = i
     ]_vars

\* a locked account has just been unlocked
C8_Witness ==
  /\ last.op = "unlock_user_account" /\ last.ret = "True"
  /\ ~accounts[last.uid].is_locked

\* C9 (counter meaning): failed_login_attempts of every account equals the
\* number of wrong-password logins that reached the password check since its
\* last successful login, reset_password, successful unlock or creation.
C9_CounterMeaning ==
  \A i \in DOMAIN accounts :
    accounts[i].failed_login_attempts = wrongSince[i]

\* a wrong attempt is counted on an account that logged in successfully before
C9_Witness ==
  \E i \in DOMAIN accounts :
    /\ wrongSince[i] = 1
    /\ accounts[i].last_login_at # NoTime
    /\ last.op = "login_user" /\ last.uid = i /\ last.ret = "None"

\* C10 (verification happens once): verify_email_with_token with the stored
\* token on an unverified account returns true and sets email_verified; on a
\* verified account every call returns false, whatever the token; and
\* email_verified of an account never goes back to false.
VerifyOnce ==
  \A i \in DOMAIN accounts, tok \in Tokens :
    (last'.op = "verify_email_with_token" /\ VerifyEmailWithToken(i, tok, {}))
      => /\ (~accounts[i].email_verified /\ accounts[i].verification_token = tok)
              => (last'.ret = "True" /\ accounts'[i].email_verified)
         /\ accounts[i].email_verified => last'.ret = "False"

VerifiedStays ==
  \A i \in DOMAIN accounts \cap DOMAIN accounts' :
    accounts[i].email_verified => accounts'[i].email_verified

C10_VerifyOnce == [][VerifyOnce /\ VerifiedStays]_vars

\* a further verification of a verified account was turned down
C10_Witness ==
  /\ last.op = "verify_email_with_token" /\ last.ret = "False"
  /\ last.uid \in DOMAIN accounts
  /\ accounts[last.uid].email_verified

\* C11 (wrong token): verify_email_with_token called with a token different
\* from the stored verification_token of the account returns false and leaves
\* every field of every account unchanged.
C11_WrongTokenNoEffect ==
  [][\A i \in DOMAIN accounts, tok \in Tokens :
       (/\ last'.op = "verify_email_with_token"
        /\ VerifyEmailWithToken(i, tok, {})
        /\ accounts[i].verification_token # tok)
         => (last'.ret = "False" /\ accounts' = accounts)]_vars

\* a verification was turned down on an account that still waits for its token
C11_Witness ==
  /\ last.op = "verify_email_with_token" /\ last.ret = "False"
  /\ last.uid \in DOMAIN accounts
  /\ ~accounts[last.uid].email_verified
  /\ accounts[last.uid].verification_token # NoToken

\* C12 (token lifetime): an account with email_verified true has no
\* verification_token, and the verification_token of an account goes from a
\* value to null only in the step in which its email_verified goes from false
\* to true.
VerifiedHasNoToken ==
  \A i \in DOMAIN accounts :
    accounts[i].email_verified => accounts[i].verification_token = NoToken

TokenClearedByVerification ==
  \A i \in DOMAIN accounts \cap DOMAIN accounts' :
    (accounts[i].verification_token # NoToken
     /\ accounts'[i].verification_token = NoToken)
      => (~accounts[i].email_verified /\ accounts'[i].email_verified)

C12_TokenLifetime ==
  []VerifiedHasNoToken /\ [][TokenClearedByVerification]_vars

\* a verification has just cleared the token of an account
C12_Witness ==
  \E i \in DOMAIN accounts :
    /\ accounts[i].email_verified
    /\ accounts[i].verification_token = NoToken
    /\ last.op = "verify_email_with_token" /\ last.uid = i /\ last.ret = "True"

\* C14 (role promotion): a verify_email_with_token that returns true makes the
\* role AUTHENTICATED when it was ANONYMOUS and leaves every other role as it
\* was; a verify_email_with_token that returns false changes no role.
C14_RolePromotion ==
  [][\A i \in DOMAIN accounts :
       (last'.op = "verify_email_with_token" /\ last'.uid = i)
         => /\ i \in DOMAIN accounts'
            /\ accounts'[i].role =
                 IF last'.ret = "True" /\ accounts[i].role = "ANONYMOUS"
                   THEN "AUTHENTICATED" ELSE accounts[i].role]_vars

\* an administrator verified the email and is an administrator still
C14_Witness ==
  /\ last.op = "verify_email_with_token" /\ last.ret = "True"
  /\ accounts[last.uid].role = "ADMIN"

\* C15 (unlock): unlock_user_account returns false and changes nothing when
\* the account does not exist or is not locked; on a locked account it returns
\* true and leaves is_locked false and failed_login_attempts 0, every other
\* field and every other account as they were.
C15_Unlock ==
  [][last'.op = "unlock_user_account"
       => IF last'.uid \notin DOMAIN accounts \/ ~accounts[last'.uid].is_locked
            THEN last'.ret = "False" /\ accounts' = accounts
            ELSE /\ last'.ret = "True"
                 /\ accounts' = [accounts EXCEPT ![last'.uid] =
                      [@ EXCEPT !.is_locked = FALSE,
                                !.failed_login_attempts = 0]]]_vars

\* an account that had been locked out was unlocked: its counter is back to 0
C15_Witness ==
  /\ last.op = "unlock_user_account" /\ last.ret = "True"
  /\ accounts[last.uid].failed_login_attempts = 0
  /\ accounts[last.uid].email_verified

\* C16 (delete): delete on an id with no account returns false and changes
\* nothing; on an existing id it returns true and removes that account and no
\* other; get_by_id on an id with no account returns not found, and an id gets
\* an account only by a create.
DeleteRemovesOne ==
  last'.op = "delete"
    => IF last'.uid \notin DOMAIN accounts
         THEN last'.ret = "False" /\ accounts' = accounts
         ELSE /\ last'.ret = "True"
              /\ DOMAIN accounts' = DOMAIN accounts \ {last'.uid}
              /\ \A j \in DOMAIN accounts' : accounts'[j] = accounts[j]

GoneUntilCreated ==
  \A id \in Ids \ DOMAIN accounts :
    /\ (last'.op = "get_by_id" /\ GetBy("id", id, {})) => last'.ret = "None"
    /\ id \in DOMAIN accounts' => (last'.op = "create" /\ last'.uid = id)

C16_Delete == [][DeleteRemovesOne /\ GoneUntilCreated]_vars

\* one of two accounts was deleted and the other is still there
C16_Witness ==
  /\ last.op = "delete" /\ last.ret = "True"
  /\ last.uid \notin DOMAIN accounts
  /\ DOMAIN accounts # {}

\* C17 (search): search_users returns at most limit results; every result is
\* an account of the table that satisfies all the filters given (username and
\* email whatever the letter case, role exactly); with account_status "locked"
\* every account returned is locked and with "active" none is.
C17_Search ==
  req.op = "search_users"
    => /\ Len(req.rows) <= req.query.limit
       /\ \A k \in DOMAIN req.rows :
            LET r == req.rows[k]
                q == req.query
            IN /\ r.id \in DOMAIN accounts
               /\ r = UserResponseOf(r.id)
               /\ q.username # Unset => Lower(r.nickname) = Lower(q.username)
               /\ q.email # Unset => Lower(r.email) = Lower(q.email)
               /\ q.role # Unset => r.role = q.role
               /\ q.account_status = "locked"
                    => (accounts[r.id].is_locked /\ r.account_status = "Locked")
               /\ q.account_status = "active"
                    => (~accounts[r.id].is_locked /\ r.account_status = "Active")

\* of two accounts, a search for the locked ones of a role listed the one
C17_Witness ==
  /\ req.op = "search_users"
  /\ req.query.account_status = "locked" /\ req.query.role # Unset
  /\ Len(req.rows) = 1
  /\ Cardinality(DOMAIN accounts) = 2

\* C18 (update conflicts): update whose patch carries an email or a nickname
\* held by a different account returns no account and changes no account;
\* update addressed to an id with no account returns no account and changes
\* nothing; a valid patch that carries nothing another account holds (the
\* account's own email or nickname included) returns the account.
HeldByOther(field, value, id) ==
  value # Unset /\ \E j \in DOMAIN accounts \ {id} : accounts[j][field] = value

C18_UpdateConflicts ==
  [][req'.op = "update"
       => LET id == req'.id
              clash == \/ HeldByOther("email", req'.patch.email, id)
                       \/ HeldByOther("nickname", req'.patch.nickname, id)
          IN /\ clash => (last'.ret = "None" /\ accounts' = accounts)
             /\ id \notin DOMAIN accounts
                  => (last'.ret = "None" /\ accounts' = accounts)
             /\ (req'.valid /\ id \in DOMAIN accounts /\ ~clash)
                  => last'.ret = "Account"]_vars

\* an update to the email of another account was turned down
C18_Witness ==
  /\ req.op = "update" /\ req.valid
  /\ req.id \in DOMAIN accounts
  /\ HeldByOther("email", req.patch.email, req.id)
  /\ last.ret = "None"

\* C13 (concurrent creates): when two create calls for the same email or
\* nickname both run their checks before either inserts, the checks of the
\* service stop neither: a create that reaches its insert persists its row and
\* returns it unless the users table rejects the insert, so that two accounts
\* with one email are reachable; with a users table that rejects duplicates no
\* two accounts share an email or a nickname.
InsertNotStopped ==
  \A p \in Procs :
    (pc[p] = "create_commit" /\ pc'[p] = "idle" /\ ~dbUnique)
      => /\ last'.ret = "Account"
         /\ last'.uid \in DOMAIN accounts' \ DOMAIN accounts
         /\ accounts'[last'.uid].email = loc[p].email
         /\ accounts'[last'.uid].nickname = loc[p].nickname

ConstraintKeepsUnique == dbUnique => UniqueIn(accounts)

C13_CreateRace == []ConstraintKeepsUnique /\ [][InsertNotStopped]_vars

\* two creates for one email have both returned their account
C13_Witness ==
  /\ last.op = "create" /\ last.ret = "Account"
  /\ \E i, j \in DOMAIN accounts :
       i # j /\ accounts[i].email = accounts[j].email

\* C19 as claimed: on a verified account, whatever the interleaving of the
\* login_user calls, at most MaxLoginAttempts wrong-password calls pass the
\* password check between two resets of the counter.
C19_BruteForceBound ==
  \A i \in DOMAIN accounts : passed[i] <= MaxLoginAttempts

\* C20 as claimed: in every state, interleaved login_user, reset_password and
\* unlock_user_account calls included, 0 <= failed_login_attempts <=
\* MaxLoginAttempts and is_locked is true exactly when failed_login_attempts
\* = MaxLoginAttempts.
C20_CounterLockConsistent ==
  \A i \in DOMAIN accounts :
    /\ accounts[i].failed_login_attempts \in 0..MaxLoginAttempts
    /\ accounts[i].is_locked
         <=> accounts[i].failed_login_attempts = MaxLoginAttempts

\* C21 (no lockout before verification): an account with email_verified false
\* is not locked and has failed_login_attempts 0, and a login_user call on an
\* account that is unverified or locked returns no account and changes no
\* field of any account.
UnverifiedIsClean ==
  \A i \in DOMAIN accounts :
    ~accounts[i].email_verified
      => (~accounts[i].is_locked /\ accounts[i].failed_login_attempts = 0)

RefusedLoginWritesNothing ==
  (/\ last'.op = "login_user"
   /\ last'.uid \in DOMAIN accounts
   /\ (~accounts[last'.uid].email_verified) \/ accounts[last'.uid].is_locked)
    => (last'.ret = "None" /\ accounts' = accounts)

C21_UnverifiedNeverLocked ==
  []UnverifiedIsClean /\ [][RefusedLoginWritesNothing]_vars

\* wrong passwords were tried in a row on an account that is not verified:
\* its counter is still 0
C21_Witness ==
  \E i \in DOMAIN accounts :
    /\ ~accounts[i].email_verified
    /\ last.op = "login_user" /\ last.uid = i /\ last.ret = "None"
    /\ ~VerifyPassword(last.arg, accounts[i].hashed_password)
    /\ accounts[i].failed_login_attempts = 0

\* C22 as claimed: in every state an account with email_verified true has had
\* verify_email_with_token succeed while it held the email it holds now; an
\* update that changes the email of a verified account does not leave it
\* verified.
C22_VerifiedCurrentEmail ==
  \A i \in DOMAIN accounts :
    accounts[i].email_verified => verifiedAs[i] = accounts[i].email

====
